---- MODULE Spec2Model ----
(***************************************************************************)
(* A model of crawl4ai-simple-cli (src/main.py): the URL normalisation     *)
(* (clean_path, clean_url), the per-page step (process_url), the crawl     *)
(* loop with archiving (crawl_website) and the entry point (main).         *)
(*                                                                         *)
(* A Python str is a sequence of one-character strings, so that the        *)
(* string operations of the code (replace, lstrip, split, startswith,      *)
(* regular-expression substitution, lower) are computed character by       *)
(* character as the code computes them.                                    *)
(***************************************************************************)
EXTENDS Integers, Sequences, FiniteSets, TLC

(***************************************************************************)
(* Bounds of the model.                                                    *)
(***************************************************************************)
\* the largest --limit value tried
MaxLimit == 3
\* the largest number of entries in one page's list of internal links
MaxLinks == 2

(***************************************************************************)
(* Characters.                                                             *)
(***************************************************************************)
\* printable ASCII, code 32 at index 1 (code 96 is written "<backtick>")
Ascii ==
  << " ", "!", "\"", "#", "$", "%", "&", "'", "(", ")", "*", "+", ",", "-", ".", "/",
     "0", "1", "2", "3", "4", "5", "6", "7", "8", "9", ":", ";", "<", "=", ">", "?",
     "@", "A", "B", "C", "D", "E", "F", "G", "H", "I", "J", "K", "L", "M", "N", "O",
     "P", "Q", "R", "S", "T", "U", "V", "W", "X", "Y", "Z", "[", "\\", "]", "^", "_",
     "<backtick>", "a", "b", "c", "d", "e", "f", "g", "h", "i", "j", "k", "l", "m", "n", "o",
     "p", "q", "r", "s", "t", "u", "v", "w", "x", "y", "z", "{", "|", "}", "~" >>

UpperCase == { Ascii[i] : i \in 34..59 }
LowerCase == { Ascii[i] : i \in 66..91 }
Digits    == { Ascii[i] : i \in 17..26 }

\* a decoded control byte that is not white space, one that is (0x0b, 0x1c to
\* 0x1f), and a decoded byte that is not ASCII (U+FFFD after errors="replace")
CtlChar == "<ctl>"
SpaceCtlChar == "<space-ctl>"
ReplChar == "<U+FFFD>"

\* \w of the re module on the ASCII range
IsWord(c) == c \in UpperCase \cup LowerCase \cup Digits \cup {"_"}
\* \s of the re module on the ASCII range
IsSpace(c) == c \in {" ", "\t", "\n", "\r", "\f", SpaceCtlChar}

CodeOf(c) == CHOOSE i \in 1..Len(Ascii) : Ascii[i] = c
\* str.lower() on one character
LowerChar(c) == IF c \in UpperCase THEN Ascii[CodeOf(c) + 32] ELSE c

HexDigits == Digits \cup {"a", "b", "c", "d", "e", "f", "A", "B", "C", "D", "E", "F"}
HexVal(c) ==
  IF c \in Digits THEN CodeOf(c) - 17
  ELSE IF c \in LowerCase THEN CodeOf(c) - 66 + 10
  ELSE CodeOf(c) - 34 + 10
\* the character of the byte %c1c2
ByteChar(c1, c2) ==
  LET v == 16 * HexVal(c1) + HexVal(c2)
  IN IF v >= 32 /\ v <= 126 THEN Ascii[v - 31]
     ELSE IF v = 9 THEN "\t"
     ELSE IF v = 10 THEN "\n"
     ELSE IF v = 12 THEN "\f"
     ELSE IF v = 13 THEN "\r"
     ELSE IF v = 11 \/ (v >= 28 /\ v <= 31) THEN SpaceCtlChar
     ELSE IF v < 128 THEN CtlChar ELSE ReplChar

(***************************************************************************)
(* Operations of str.  The recursive ones are functions of the strings.   *)
(***************************************************************************)
Range(s) == { s[i] : i \in 1..Len(s) }
Drop(s, n) == SubSeq(s, n + 1, Len(s))
Take(s, n) == SubSeq(s, 1, n)

\* s.startswith(p)
StartsWith(s, p) == Len(p) <= Len(s) /\ Take(s, Len(p)) = p

\* s.find(c) for a single character, 0 when absent (1-based)
Find[s \in Seq(STRING), c \in STRING] ==
  IF c \in Range(s) THEN CHOOSE i \in 1..Len(s) : s[i] = c /\ \A j \in 1..(i - 1) : s[j] # c
  ELSE 0

\* s.replace(old, ""): every non-overlapping occurrence, left to right
Remove[s \in Seq(STRING), old \in Seq(STRING)] ==
  IF old = <<>> \/ s = <<>> THEN s
  ELSE IF StartsWith(s, old) THEN Remove[Drop(s, Len(old)), old]
  ELSE <<Head(s)>> \o Remove[Tail(s), old]

\* s.lstrip(c)
LStrip[s \in Seq(STRING), c \in STRING] == IF s # <<>> /\ Head(s) = c THEN LStrip[Tail(s), c] ELSE s

\* s.rstrip(c)
RStrip[s \in Seq(STRING), c \in STRING] ==
  IF s # <<>> /\ s[Len(s)] = c THEN RStrip[Take(s, Len(s) - 1), c] ELSE s

\* s.split(c): the sequence of the parts between the separators
Split[s \in Seq(STRING), c \in STRING] ==
  LET i == Find[s, c]
  IN IF i = 0 THEN <<s>> ELSE <<Take(s, i - 1)>> \o Split[Drop(s, i), c]

\* c.join(parts)
Join[parts \in Seq(Seq(STRING)), c \in STRING] ==
  IF parts = <<>> THEN <<>>
  ELSE IF Len(parts) = 1 THEN parts[1]
  ELSE parts[1] \o <<c>> \o Join[Tail(parts), c]

\* s.lower()
Lower(s) == [i \in 1..Len(s) |-> LowerChar(s[i])]

\* s.strip()
StripSpace[s \in Seq(STRING)] ==
  IF s # <<>> /\ IsSpace(Head(s)) THEN StripSpace[Tail(s)]
  ELSE IF s # <<>> /\ IsSpace(s[Len(s)]) THEN StripSpace[Take(s, Len(s) - 1)]
  ELSE s

\* re.sub(r"[^\w\s-]", "", s)
SubNonWord[s \in Seq(STRING)] ==
  IF s = <<>> THEN <<>>
  ELSE IF IsWord(Head(s)) \/ IsSpace(Head(s)) \/ Head(s) = "-"
       THEN <<Head(s)>> \o SubNonWord[Tail(s)]
       ELSE SubNonWord[Tail(s)]

LStripSpace[s \in Seq(STRING)] == IF s # <<>> /\ IsSpace(Head(s)) THEN LStripSpace[Tail(s)] ELSE s

\* re.sub(r"\s+", "_", s)
SubSpaces[s \in Seq(STRING)] ==
  IF s = <<>> THEN <<>>
  ELSE IF IsSpace(Head(s))
       THEN <<"_">> \o SubSpaces[LStripSpace[Tail(s)]]
       ELSE <<Head(s)>> \o SubSpaces[Tail(s)]

(***************************************************************************)
(* urllib.parse.unquote, os.path.normpath, clean_path.                     *)
(***************************************************************************)
\* unquote(s): %XX with two hex digits is the character of that byte, any
\* other % stays as it is
unquote[s \in Seq(STRING)] ==
  IF s = <<>> THEN <<>>
  ELSE IF Head(s) = "%" /\ Len(s) >= 3 /\ s[2] \in HexDigits /\ s[3] \in HexDigits
       THEN <<ByteChar(s[2], s[3])>> \o unquote[Drop(s, 3)]
       ELSE <<Head(s)>> \o unquote[Tail(s)]

\* the loop of posixpath.normpath over the components: new_comps after comps
NormComps[comps \in Seq(Seq(STRING)), new_comps \in Seq(Seq(STRING)), initial_slashes \in 0..2] ==
  IF comps = <<>> THEN new_comps
  ELSE LET comp == Head(comps)
           n == Len(new_comps)
       IN IF comp = <<>> \/ comp = <<".">>
          THEN NormComps[Tail(comps), new_comps, initial_slashes]
          ELSE IF comp # <<".", ".">>
                  \/ (initial_slashes = 0 /\ n = 0)
                  \/ (n > 0 /\ new_comps[n] = <<".", ".">>)
          THEN NormComps[Tail(comps), Append(new_comps, comp), initial_slashes]
          ELSE IF n > 0
          THEN NormComps[Tail(comps), Take(new_comps, n - 1), initial_slashes]
          ELSE NormComps[Tail(comps), new_comps, initial_slashes]

\* os.path.normpath (posixpath)
normpath(path) ==
  IF path = <<>> THEN <<".">>
  ELSE LET initial_slashes ==
             IF ~StartsWith(path, <<"/">>) THEN 0
             ELSE IF StartsWith(path, <<"/", "/">>) /\ ~StartsWith(path, <<"/", "/", "/">>)
                  THEN 2 ELSE 1
           joined == Join[NormComps[Split[path, "/"], <<>>, initial_slashes], "/"]
           p == [i \in 1..initial_slashes |-> "/"] \o joined
       IN IF p = <<>> THEN <<".">> ELSE p

\* clean_path without line 23: url is not decoded
clean_path_url_not_unquoted(url, base_url) ==
  LET u == url
      b == unquote[base_url]
      relative == LStrip[Remove[u, b], "/"]
      path == IF "#" \in Range(relative)
              THEN Split[relative, "#"][2]
              ELSE Split[relative, "?"][1]
  IN IF path = <<>> THEN <<>>
     ELSE Lower(SubSpaces[StripSpace[SubNonWord[normpath(path)]]])

\* clean_path(url, base_url): the path of url relative to base_url, cleaned
clean_path(url, base_url) ==
  LET u == unquote[url]
      b == unquote[base_url]
      relative == LStrip[Remove[u, b], "/"]
      path == IF "#" \in Range(relative)
              THEN Split[relative, "#"][2]
              ELSE Split[relative, "?"][1]
  IN IF path = <<>> THEN <<>>
     ELSE Lower(SubSpaces[StripSpace[SubNonWord[normpath(path)]]])

(***************************************************************************)
(* urllib.parse: urlsplit, urlunsplit, urljoin, as far as the code uses    *)
(* them.  The ;parameters of a path are not modelled: main reads only the  *)
(* scheme and the netloc, and urljoin drops the last segment of the base   *)
(* path, the only one that can carry parameters, whenever the joined path  *)
(* is not empty.                                                           *)
(***************************************************************************)
\* urllib.parse.uses_relative
uses_relative ==
  { <<>>, <<"f", "t", "p">>, <<"h", "t", "t", "p">>, <<"g", "o", "p", "h", "e", "r">>,
    <<"n", "n", "t", "p">>, <<"i", "m", "a", "p">>, <<"w", "a", "i", "s">>,
    <<"f", "i", "l", "e">>, <<"h", "t", "t", "p", "s">>, <<"s", "h", "t", "t", "p">>,
    <<"m", "m", "s">>, <<"p", "r", "o", "s", "p", "e", "r", "o">>, <<"r", "t", "s", "p">>,
    <<"r", "t", "s", "p", "s">>, <<"r", "t", "s", "p", "u">>, <<"s", "f", "t", "p">>,
    <<"s", "v", "n">>, <<"s", "v", "n", "+", "s", "s", "h">>, <<"w", "s">>, <<"w", "s", "s">> }

\* urllib.parse.uses_netloc
uses_netloc ==
  { <<>>, <<"f", "t", "p">>, <<"h", "t", "t", "p">>, <<"g", "o", "p", "h", "e", "r">>,
    <<"n", "n", "t", "p">>, <<"t", "e", "l", "n", "e", "t">>, <<"i", "m", "a", "p">>,
    <<"w", "a", "i", "s">>, <<"f", "i", "l", "e">>, <<"m", "m", "s">>,
    <<"h", "t", "t", "p", "s">>, <<"s", "h", "t", "t", "p">>, <<"s", "n", "e", "w", "s">>,
    <<"p", "r", "o", "s", "p", "e", "r", "o">>, <<"r", "t", "s", "p">>,
    <<"r", "t", "s", "p", "s">>, <<"r", "t", "s", "p", "u">>, <<"r", "s", "y", "n", "c">>,
    <<"s", "v", "n">>, <<"s", "v", "n", "+", "s", "s", "h">>, <<"s", "f", "t", "p">>,
    <<"n", "f", "s">>, <<"g", "i", "t">>, <<"g", "i", "t", "+", "s", "s", "h">>, <<"w", "s">>,
    <<"w", "s", "s">> }

\* urllib.parse.scheme_chars
scheme_chars == LowerCase \cup UpperCase \cup Digits \cup {"+", "-", "."}

\* url.lstrip(_WHATWG_C0_CONTROL_OR_SPACE)
LStripC0[s \in Seq(STRING)] ==
  IF s # <<>> /\ (IsSpace(Head(s)) \/ Head(s) = CtlChar) THEN LStripC0[Tail(s)] ELSE s

\* the removal of _UNSAFE_URL_BYTES_TO_REMOVE
RemoveUnsafe(s) == Remove[Remove[Remove[s, <<"\t">>], <<"\r">>], <<"\n">>]

\* _splitnetloc(url, 2): the index of the first of / ? # after the two
\* slashes, Len(url) + 1 when there is none
NetlocEnd[url \in Seq(STRING)] ==
  LET ends == { i \in 3..Len(url) : url[i] \in {"/", "?", "#"} }
  IN IF ends = {} THEN Len(url) + 1 ELSE CHOOSE i \in ends : \A j \in ends : i <= j

\* s.split(c, 1)
Split1[s \in Seq(STRING), c \in STRING] ==
  LET i == Find[s, c] IN IF i = 0 THEN <<s>> ELSE <<Take(s, i - 1), Drop(s, i)>>

\* the value of urlsplit: a SplitResult
SplitResult ==
  [scheme : Seq(STRING), netloc : Seq(STRING), path : Seq(STRING),
   query : Seq(STRING), fragment : Seq(STRING)]

\* urlsplit: the scheme and the rest of url, default_scheme when url has none
SplitScheme[url \in Seq(STRING), default_scheme \in Seq(STRING)] ==
  LET i == Find[url, ":"]
  IN IF /\ i > 1
        /\ url[1] \in LowerCase \cup UpperCase
        /\ \A j \in 1..(i - 1) : url[j] \in scheme_chars
     THEN [scheme |-> Lower(Take(url, i - 1)), url |-> Drop(url, i)]
     ELSE [scheme |-> default_scheme, url |-> url]

\* urlsplit: the netloc and the rest of url
SplitNetloc[url \in Seq(STRING)] ==
  IF StartsWith(url, <<"/", "/">>)
  THEN [netloc |-> SubSeq(url, 3, NetlocEnd[url] - 1), url |-> Drop(url, NetlocEnd[url] - 1)]
  ELSE [netloc |-> <<>>, url |-> url]

\* urlsplit: the path, the query and the fragment of the rest of url
SplitPath[url \in Seq(STRING)] ==
  LET frag == Split1[url, "#"]
      qry == Split1[frag[1], "?"]
  IN [path |-> qry[1],
      query |-> IF Len(qry) = 2 THEN qry[2] ELSE <<>>,
      fragment |-> IF Len(frag) = 2 THEN frag[2] ELSE <<>>]

\* urlsplit(url, scheme)
urlsplit(url0, default_scheme) ==
  LET s == SplitScheme[RemoveUnsafe(LStripC0[url0]), default_scheme]
      n == SplitNetloc[s.url]
      p == SplitPath[n.url]
  IN [scheme |-> s.scheme, netloc |-> n.netloc, path |-> p.path,
      query |-> p.query, fragment |-> p.fragment]

\* urlunsplit((scheme, netloc, url, query, fragment))
urlunsplit[scheme \in Seq(STRING), netloc \in Seq(STRING), path \in Seq(STRING), query \in Seq(STRING), fragment \in Seq(STRING)] ==
  LET url1 == IF netloc # <<>>
                 \/ (scheme # <<>> /\ scheme \in uses_netloc /\ ~StartsWith(path, <<"/", "/">>))
              THEN <<"/", "/">> \o netloc
                   \o (IF path # <<>> /\ Head(path) # "/" THEN <<"/">> ELSE <<>>) \o path
              ELSE path
      url2 == IF scheme # <<>> THEN scheme \o <<":">> \o url1 ELSE url1
      url3 == IF query # <<>> THEN url2 \o <<"?">> \o query ELSE url2
  IN IF fragment # <<>> THEN url3 \o <<"#">> \o fragment ELSE url3

\* segments[1:-1] = filter(None, segments[1:-1])
DropEmptyInner[segments \in Seq(Seq(STRING))] ==
  IF Len(segments) <= 2 THEN segments
  ELSE <<segments[1]>>
       \o SelectSeq(SubSeq(segments, 2, Len(segments) - 1), LAMBDA seg : seg # <<>>)
       \o <<segments[Len(segments)]>>

\* the loop of urljoin over the segments: resolved_path after segments
ResolveSegments[segments \in Seq(Seq(STRING)), resolved_path \in Seq(Seq(STRING))] ==
  IF segments = <<>> THEN resolved_path
  ELSE LET seg == Head(segments)
           n == Len(resolved_path)
       IN IF seg = <<".", ".">>
          THEN ResolveSegments[Tail(segments),
                               IF n > 0 THEN Take(resolved_path, n - 1) ELSE resolved_path]
          ELSE IF seg = <<".">>
          THEN ResolveSegments[Tail(segments), resolved_path]
          ELSE ResolveSegments[Tail(segments), Append(resolved_path, seg)]

\* urljoin: base_parts, the segments of the base path without the last one
BaseParts[bparts \in Seq(Seq(STRING))] ==
  IF bparts[Len(bparts)] # <<>> THEN Take(bparts, Len(bparts) - 1) ELSE bparts

\* urljoin: the segments of the joined path
Segments[bpath \in Seq(STRING), path \in Seq(STRING)] ==
  IF Head(path) = "/" THEN Split[path, "/"]
  ELSE DropEmptyInner[BaseParts[Split[bpath, "/"]] \o Split[path, "/"]]

\* urljoin: resolved_path of the segments, a "/" when it is empty
ResolvedPath[segments \in Seq(Seq(STRING))] ==
  Join[IF segments[Len(segments)] \in {<<".">>, <<".", ".">>}
       THEN Append(ResolveSegments[segments, <<>>], <<>>)
       ELSE ResolveSegments[segments, <<>>], "/"]

OrSlash(path) == IF path = <<>> THEN <<"/">> ELSE path

\* urljoin(base, url) from the netloc on, b and r being base and url parsed
JoinParsed[b \in SplitResult, r \in SplitResult, netloc \in Seq(STRING)] ==
  IF r.path = <<>>
  THEN urlunsplit[r.scheme, netloc, b.path,
                  IF r.query = <<>> THEN b.query ELSE r.query, r.fragment]
  ELSE urlunsplit[r.scheme, netloc, OrSlash(ResolvedPath[Segments[b.path, r.path]]),
                  r.query, r.fragment]

\* urljoin(base, url), b and r being base and url parsed
JoinSplit[b \in SplitResult, r \in SplitResult, url \in Seq(STRING)] ==
  IF r.scheme # b.scheme \/ r.scheme \notin uses_relative THEN url
  ELSE IF r.scheme \in uses_netloc /\ r.netloc # <<>>
  THEN urlunsplit[r.scheme, r.netloc, r.path, r.query, r.fragment]
  ELSE JoinParsed[b, r, IF r.scheme \in uses_netloc THEN b.netloc ELSE r.netloc]

\* urljoin(base, url), b being base parsed
JoinBase[b \in SplitResult, url \in Seq(STRING)] == JoinSplit[b, urlsplit(url, b.scheme), url]

\* urljoin(base, url)
urljoin(base, url) ==
  IF base = <<>> THEN url
  ELSE IF url = <<>> THEN base
  ELSE JoinBase[urlsplit(base, <<>>), url]

\* clean_url(url, base_url): the cleaned path joined to base_url
clean_url(url, base_url) == urljoin(base_url, clean_path(url, base_url))

(***************************************************************************)
(* The inputs of a run: the command line and what the page-fetch           *)
(* collaborator (crawler.arun), the file system and the archiver answer.   *)
(***************************************************************************)
Http_e == <<"h", "t", "t", "p", ":", "/", "/", "e">>

\* values of the url argument: a site root given with a trailing slash, a
\* base with a path, a URL without scheme, a URL without host
SeedArgs ==
  { Http_e \o <<"/">>,
    Http_e \o <<"/", "d">>,
    <<"e", "/", "d">>,
    <<"h", "t", "t", "p", ":", "/", "/">> }

\* values of --limit (type=int: zero and negative values are accepted)
Limits == (-1)..MaxLimit

\* one entry of result.links["internal"]: a str, a dict with a str href, a
\* dict without href, a dict whose href is not a str, a value that is
\* neither a str nor a dict
StrLink(s) == [kind |-> "str", value |-> s]
DictLink(s) == [kind |-> "dict", value |-> s]
DictNoHref == [kind |-> "dict_no_href", value |-> <<>>]
DictBadHref == [kind |-> "dict_bad_href", value |-> <<>>]
NonStrLink == [kind |-> "non_str", value |-> <<>>]

LinkPool ==
  { StrLink(Http_e \o <<"/", "a">>),                       \* http://e/a
    StrLink(Http_e \o <<"/", "A">>),                       \* http://e/A
    StrLink(<<"/", "d", "/", "x">>),                       \* /d/x
    DictLink(<<"h", "t", "t", "p", ":", "/", "/", "x", "/", "a">>),   \* http://x/a
    DictNoHref,
    DictBadHref,
    NonStrLink }

\* the lengths of result.links["internal"]; the for loop of crawl_website
\* reads the entries one by one, and each entry is any of LinkPool
LinkCounts == 0..MaxLinks

\* result.metadata["title"]: a str, absent, or not a str
StrTitle(s) == [kind |-> "str", value |-> s]
NoTitle == [kind |-> "absent", value |-> <<>>]
BadTitle == [kind |-> "non_str", value |-> <<>>]
Titles == { StrTitle(<<"T">>), StrTitle(<<"T", " ", "a">>), NoTitle, BadTitle }

\* what one call of crawler.arun and the write of its page come to:
\*   arun    "raises" or "returns"
\*   success result.success
\*   title   result.metadata["title"]
\*   write   "ok", "open_raises" or "write_raises" (aiofiles)
\*   n_links len(result.links["internal"])
FetchResult(arun, success, title, write, n_links) ==
  [arun |-> arun, success |-> success, title |-> title, write |-> write,
   n_links |-> n_links]

FetchResults ==
  { FetchResult("raises", FALSE, NoTitle, "ok", 0),
    FetchResult("returns", TRUE, BadTitle, "ok", 0) }
  \cup { FetchResult("returns", FALSE, NoTitle, "ok", n) : n \in LinkCounts }
  \cup { FetchResult("returns", TRUE, StrTitle(<<"T">>), w, 0) :
           w \in {"open_raises", "write_raises"} }
  \cup { FetchResult("returns", TRUE, t, "ok", n) :
           t \in Titles \ {NoTitle, BadTitle}, n \in LinkCounts }
  \cup { FetchResult("returns", TRUE, NoTitle, "ok", 0) }

(***************************************************************************)
(* process_url.                                                            *)
(***************************************************************************)
Untitled == <<"u", "n", "t", "i", "t", "l", "e", "d">>
DotMd == <<".", "m", "d">>

\* lines 64 to 76: the file name of a page from its title and its URL
FileName(title, url, base_url) ==
  LET t == IF title.kind = "absent" THEN Untitled ELSE title.value
      clean_title == SubSpaces[StripSpace[SubNonWord[t]]]
      path_suffix == clean_path(url, base_url)
  IN Lower(clean_title)
     \o (IF path_suffix # <<>> THEN <<"_">> \o path_suffix ELSE <<>>)
     \o DotMd

\* whether the page of result failed: the collaborator raised or reported
\* success=false, or the file name or the write raised
PageFailed(result) ==
  \/ result.arun = "raises"
  \/ ~result.success
  \/ result.title.kind = "non_str"
  \/ result.write # "ok"

\* lines 79, 80: the file that the page of result opens for writing, if it
\* gets that far (mode "w" truncates a file that exists)
Opened(url, base_url, result) ==
  IF result.arun = "returns" /\ result.success /\ result.title.kind # "non_str"
     /\ result.write # "open_raises"
  THEN {FileName(result.title, url, base_url)}
  ELSE {}

\* process_url(url, output_dir, crawler, base_url) when arun answers result:
\*   internal_links  the number of links returned (line 87)
\*   files           the files of output_dir afterwards
\*   error           whether line 86 printed "Error processing <url>"
\*   escaped         whether an exception left process_url: never, because
\*                   line 85 catches every Exception
Page(internal_links, fs, error) ==
  [internal_links |-> internal_links, files |-> fs, error |-> error, escaped |-> FALSE]

\* process_url without the try of lines 56 and 85: an exception leaves it
process_url_no_except(url, base_url, result, files) ==
  IF result.arun = "raises" \/ (result.success /\ result.title.kind = "non_str")
     \/ (result.success /\ result.write = "open_raises")
  THEN [Page(0, files, FALSE) EXCEPT !.escaped = TRUE]
  ELSE IF ~result.success THEN Page(0, files, FALSE)
  ELSE IF result.write = "write_raises"
  THEN [Page(0, files \cup {FileName(result.title, url, base_url)}, FALSE)
          EXCEPT !.escaped = TRUE]
  ELSE Page(result.n_links, files \cup {FileName(result.title, url, base_url)}, FALSE)

\* process_url with line 84 before the test of line 61: the links of a page
\* that reports success=False are returned
process_url_links_before_success(url, base_url, result, files) ==
  IF result.arun = "raises" THEN Page(0, files, TRUE)
  ELSE IF ~result.success THEN Page(result.n_links, files, FALSE)
  ELSE IF result.title.kind = "non_str" THEN Page(0, files, TRUE)
  ELSE IF result.write = "open_raises" THEN Page(0, files, TRUE)
  ELSE IF result.write = "write_raises"
  THEN Page(0, files \cup {FileName(result.title, url, base_url)}, TRUE)
  ELSE Page(result.n_links, files \cup {FileName(result.title, url, base_url)}, FALSE)

process_url(url, base_url, result, files) ==
  IF result.arun = "raises" THEN Page(0, files, TRUE)
  ELSE IF ~result.success THEN Page(0, files, FALSE)
  ELSE IF result.title.kind = "non_str" THEN Page(0, files, TRUE)
  ELSE IF result.write = "open_raises" THEN Page(0, files, TRUE)
  ELSE IF result.write = "write_raises"
  THEN Page(0, files \cup {FileName(result.title, url, base_url)}, TRUE)
  ELSE Page(result.n_links, files \cup {FileName(result.title, url, base_url)}, FALSE)

(***************************************************************************)
(* crawl_website: the loop.                                                *)
(***************************************************************************)
\* the loop condition with <= for <
LoopConditionOffByOne(pending, processed, lim) ==
  pending # {} /\ Cardinality(processed) <= lim

\* the loop condition ending the loop one page before the limit
LoopConditionStopsEarly(pending, processed, lim) ==
  pending # {} /\ Cardinality(processed) + 1 < lim

\* line 102: the condition of the while loop
LoopCondition(pending, processed, lim) == pending # {} /\ Cardinality(processed) < lim

\* lines 120 to 123: whether the link's URL is a str, and the URL
IsStrUrl(link) == link.kind \in {"str", "dict", "dict_no_href"}
LinkUrl(link) == link.value

\* the test of lines 126 to 130 without startswith(base_url)
ShouldEnqueueAnySite(cleaned, base, processed) ==
  cleaned # <<>> /\ cleaned \notin processed

\* the test of lines 126 to 130 without "not in processed_urls"
ShouldEnqueueProcessed(cleaned, base, processed) ==
  cleaned # <<>> /\ StartsWith(cleaned, base)

\* lines 126 to 130: whether a cleaned link URL is added to urls_to_process
ShouldEnqueue(cleaned, base, processed) ==
  cleaned # <<>> /\ StartsWith(cleaned, base) /\ cleaned \notin processed

\* lines 126 to 131: urls_to_process after the cleaned URL of a link
Enqueue(cleaned, base, processed, pending) ==
  IF ShouldEnqueue(cleaned, base, processed) THEN pending \cup {cleaned} ELSE pending

\* line 116 left out
AddProcessedForgets(processed, current) == processed

\* line 116: processed_urls after the page of current
AddProcessed(processed, current) == processed \cup {current}

(***************************************************************************)
(* main: the validation of the URL.                                        *)
(***************************************************************************)
\* line 172 with "and" for "or"
ValidUrlEither(u) ==
  LET parsed_url == urlsplit(u, <<>>)
  IN ~(parsed_url.scheme = <<>> /\ parsed_url.netloc = <<>>)

\* line 172 negated: the URL has a scheme and a netloc
ValidUrl(u) ==
  LET parsed_url == urlsplit(u, <<>>)
  IN ~(parsed_url.scheme = <<>> \/ parsed_url.netloc = <<>>)

(***************************************************************************)
(* The state of a run.                                                     *)
(***************************************************************************)
VARIABLES
  pc,               \* where the run is
  arg_url,          \* args.url
  limit,            \* args.limit
  url,              \* the url of crawl_website (base_url of main)
  base_url,         \* base_url of crawl_website
  processed_urls,   \* the set processed_urls
  urls_to_process,  \* the set urls_to_process
  current_url,      \* current_url, <<>> before the first iteration
  links_left,       \* the entries of internal_links the for loop has yet to read
  link_url,         \* link_url after line 125, <<>> before the first link
  output_dir,       \* the output directory: "absent", "exists" or "removed"
  files,            \* the names of the files in the output directory
  archive,          \* the zip file: "absent", "partial" or "created"
  printed,          \* what was printed: [msg, url]
  caught,           \* the call whose exception line 144 caught, "" if none
  fetched,          \* the URLs crawler.arun was called with
  fetch_failed,     \* the URLs whose page failed (PageFailed)
  arun_calls,       \* the number of calls of crawler.arun
  enqueued,         \* the URLs that were ever added to urls_to_process
  in_flight,        \* the calls of crawler.arun that have not returned yet
  rewritten,        \* the file names opened for writing when they existed
  norm              \* a call of clean_path and clean_url on its own: its arguments and results

vars == << pc, arg_url, limit, url, base_url, processed_urls, urls_to_process,
           current_url, links_left, link_url, output_dir, files, archive, printed,
           caught, fetched, fetch_failed, arun_calls, enqueued, in_flight,
           rewritten, norm >>

Msg(m, u) == [msg |-> m, url |-> u]

\* no call of clean_path on its own is under way
NoCall == [stage |-> "none"]

Init ==
  /\ pc = "main"
  /\ arg_url \in SeedArgs
  /\ limit \in Limits
  /\ url = <<>>
  /\ base_url = <<>>
  /\ processed_urls = {}
  /\ urls_to_process = {}
  /\ current_url = <<>>
  /\ links_left = 0
  /\ link_url = <<>>
  /\ output_dir = "absent"
  /\ files = {}
  /\ archive = "absent"
  /\ printed = {}
  /\ caught = ""
  /\ fetched = {}
  /\ fetch_failed = {}
  /\ arun_calls = 0
  /\ enqueued = {}
  /\ in_flight = 0
  /\ rewritten = {}
  /\ norm = NoCall

\* the exception of the named call is swallowed where it is raised
FailSwallowed(call) ==
  /\ pc' = pc
  /\ caught' = call
  /\ printed' = printed

\* lines 144, 145: an exception of the named call is caught and reported
Fail(call) ==
  /\ pc' = "failed"
  /\ caught' = call
  /\ printed' = printed \cup {Msg("Crawl failed", <<>>)}

\* main, lines 167 to 180, up to the call of crawl_website
Main ==
  /\ pc = "main"
  /\ url' = RStrip[arg_url, "/"]
  /\ IF ValidUrl(url')
     THEN pc' = "makedirs" /\ printed' = printed
     ELSE pc' = "invalid" /\ printed' = printed \cup {Msg("Invalid URL provided", <<>>)}
  /\ UNCHANGED << norm, arg_url, limit, base_url, processed_urls, urls_to_process, current_url,
                  links_left, link_url, output_dir, files, archive, caught, fetched,
                  fetch_failed, arun_calls, enqueued, in_flight, rewritten >>

\* line 94: os.makedirs succeeds or raises
MakeDirs ==
  /\ pc = "makedirs"
  /\ \E ok \in BOOLEAN :
       IF ok
       THEN pc' = "crawler_enter" /\ output_dir' = "exists" /\ UNCHANGED << printed, caught >>
       ELSE Fail("makedirs") /\ UNCHANGED output_dir
  /\ UNCHANGED << norm, arg_url, limit, url, base_url, processed_urls, urls_to_process,
                  current_url, links_left, link_url, files, archive, fetched,
                  fetch_failed, arun_calls, enqueued, in_flight, rewritten >>

\* lines 97 to 100: the crawler starts or raises; the sets are initialised
CrawlerEnter ==
  /\ pc = "crawler_enter"
  /\ \E ok \in BOOLEAN :
       IF ok
       THEN /\ pc' = "loop"
            /\ processed_urls' = {}
            /\ urls_to_process' = {url}
            /\ enqueued' = {url}
            /\ base_url' = RStrip[url, "/"]
            /\ UNCHANGED << printed, caught >>
       ELSE /\ Fail("crawler_enter")
            /\ UNCHANGED << processed_urls, urls_to_process, enqueued, base_url >>
  /\ UNCHANGED << norm, arg_url, limit, url, current_url, links_left, link_url, output_dir,
                  files, archive, fetched, fetch_failed, arun_calls, in_flight, rewritten >>

\* the loop head with the call of line 113 not awaited: the loop goes on
\* while the fetch is in flight
LoopHeadNoAwait ==
  /\ pc = "loop"
  /\ IF ~LoopCondition(urls_to_process, processed_urls, limit)
     THEN /\ pc' = "crawler_exit"
          /\ UNCHANGED << urls_to_process, current_url, printed, fetched, arun_calls,
                          in_flight >>
     ELSE \E u \in urls_to_process :
            /\ urls_to_process' = urls_to_process \ {u}
            /\ current_url' = u
            /\ IF u \in processed_urls
               THEN pc' = "loop" /\ UNCHANGED << printed, fetched, arun_calls, in_flight >>
               ELSE /\ pc' = "loop"
                    /\ printed' = printed \cup {Msg("Crawling", u)}
                    /\ fetched' = fetched \cup {u}
                    /\ arun_calls' = arun_calls + 1
                    /\ in_flight' = in_flight + 1
  /\ UNCHANGED << norm, arg_url, limit, url, base_url, processed_urls, links_left, link_url,
                  output_dir, files, archive, caught, fetch_failed, enqueued, rewritten >>

\* lines 102 to 113: the loop condition, the pop, the skip of a processed
\* URL, the progress line and the call of crawler.arun
LoopHead ==
  /\ pc = "loop"
  /\ IF ~LoopCondition(urls_to_process, processed_urls, limit)
     THEN /\ pc' = "crawler_exit"
          /\ UNCHANGED << urls_to_process, current_url, printed, fetched, arun_calls,
                          in_flight >>
     ELSE \E u \in urls_to_process :
            /\ urls_to_process' = urls_to_process \ {u}
            /\ current_url' = u
            /\ IF u \in processed_urls
               THEN pc' = "loop" /\ UNCHANGED << printed, fetched, arun_calls, in_flight >>
               ELSE /\ pc' = "fetching"
                    /\ printed' = printed \cup {Msg("Crawling", u)}
                    /\ fetched' = fetched \cup {u}
                    /\ arun_calls' = arun_calls + 1
                    /\ in_flight' = in_flight + 1
  /\ UNCHANGED << norm, arg_url, limit, url, base_url, processed_urls, links_left, link_url,
                  output_dir, files, archive, caught, fetch_failed, enqueued, rewritten >>

\* lines 113 to 119: crawler.arun answers, process_url finishes, the URL is
\* added to processed_urls and the for loop over the links starts
FetchDone ==
  /\ pc = "fetching"
  /\ \E result \in FetchResults :
       LET page == process_url(current_url, base_url, result, files)
       IN /\ files' = page.files
          /\ rewritten' = rewritten \cup (Opened(current_url, base_url, result) \cap files)
          /\ in_flight' = in_flight - 1
          /\ fetch_failed' = IF PageFailed(result) THEN fetch_failed \cup {current_url}
                             ELSE fetch_failed
          /\ IF page.escaped
             THEN /\ Fail("process_url")
                  /\ UNCHANGED << processed_urls, links_left >>
             ELSE /\ printed' = printed
                       \cup (IF page.error THEN {Msg("Error processing", current_url)}
                             ELSE {})
                  /\ processed_urls' = AddProcessed(processed_urls, current_url)
                  /\ links_left' = page.internal_links
                  /\ pc' = IF page.internal_links = 0 THEN "loop" ELSE "links"
                  /\ UNCHANGED caught
  /\ UNCHANGED << norm, arg_url, limit, url, base_url, urls_to_process, current_url, link_url,
                  output_dir, archive, fetched, arun_calls, enqueued >>

\* lines 119 to 131: the for loop reads the next link of the page; unquote
\* raises TypeError on a URL that is not a str
NextLink ==
  /\ pc = "links"
  /\ \/ \E link \in { l \in LinkPool : ~IsStrUrl(l) } :
          /\ Fail("clean_url")
          /\ UNCHANGED << link_url, urls_to_process, enqueued, links_left >>
     \/ \E link \in { l \in LinkPool : IsStrUrl(l) } :
          /\ link_url' = clean_url(LinkUrl(link), base_url)
          /\ urls_to_process' = Enqueue(link_url', base_url, processed_urls, urls_to_process)
          /\ enqueued' = Enqueue(link_url', base_url, processed_urls, enqueued)
          /\ links_left' = links_left - 1
          /\ pc' = IF links_left = 1 THEN "loop" ELSE "links"
          /\ UNCHANGED << printed, caught >>
  /\ UNCHANGED << norm, arg_url, limit, url, base_url, processed_urls, current_url,
                  output_dir, files, archive, fetched, fetch_failed, arun_calls,
                  in_flight, rewritten >>

\* lines 97 and 133: the crawler is closed at the end of the async with
\* block, which may raise; then "Crawling completed." is printed
CrawlerExit ==
  /\ pc = "crawler_exit"
  /\ \E ok \in BOOLEAN :
       IF ok
       THEN /\ pc' = "make_archive"
            /\ printed' = printed \cup {Msg("Crawling completed.", <<>>)}
            /\ UNCHANGED caught
       ELSE Fail("crawler_exit")
  /\ UNCHANGED << norm, arg_url, limit, url, base_url, processed_urls, urls_to_process,
                  current_url, links_left, link_url, output_dir, files, archive,
                  fetched, fetch_failed, arun_calls, enqueued, in_flight, rewritten >>

\* lines 136 to 142 with the failure of make_archive ignored
MakeArchiveUnchecked ==
  /\ pc = "make_archive"
  /\ \E outcome \in {"created", "partial", "absent"} :
       /\ archive' = outcome
       /\ pc' = "rmtree"
       /\ printed' = printed \cup {Msg("Results have been zipped", <<>>)}
       /\ UNCHANGED caught
  /\ UNCHANGED << norm, arg_url, limit, url, base_url, processed_urls, urls_to_process,
                  current_url, links_left, link_url, output_dir, files, fetched,
                  fetch_failed, arun_calls, enqueued, in_flight, rewritten >>

\* lines 136 to 138: shutil.make_archive succeeds, or raises and leaves no
\* zip file or a part of one
MakeArchive ==
  /\ pc = "make_archive"
  /\ \E outcome \in {"created", "partial", "absent"} :
       /\ archive' = outcome
       /\ IF outcome = "created"
          THEN /\ pc' = "rmtree"
               /\ printed' = printed \cup {Msg("Results have been zipped", <<>>)}
               /\ UNCHANGED caught
          ELSE Fail("make_archive")
  /\ UNCHANGED << norm, arg_url, limit, url, base_url, processed_urls, urls_to_process,
                  current_url, links_left, link_url, output_dir, files, fetched,
                  fetch_failed, arun_calls, enqueued, in_flight, rewritten >>

\* lines 141, 142: shutil.rmtree removes the directory, or raises after it
\* has removed some of the files
RmTree ==
  /\ pc = "rmtree"
  /\ \/ /\ output_dir' = "removed"
        /\ files' = {}
        /\ pc' = "done"
        /\ printed' = printed \cup {Msg("Temporary output directory has been removed", <<>>)}
        /\ UNCHANGED caught
     \/ /\ \E kept \in SUBSET files : files' = kept
        /\ UNCHANGED output_dir
        /\ Fail("rmtree")
  /\ UNCHANGED << norm, arg_url, limit, url, base_url, processed_urls, urls_to_process,
                  current_url, links_left, link_url, archive, fetched, fetch_failed,
                  arun_calls, enqueued, in_flight, rewritten >>

Next ==
  \/ Main
  \/ MakeDirs
  \/ CrawlerEnter
  \/ LoopHead
  \/ FetchDone
  \/ NextLink
  \/ CrawlerExit
  \/ MakeArchive
  \/ RmTree

Spec == Init /\ [][Next]_vars

\* every step of the program is taken: the code runs on, and each call of
\* crawler.arun returns or raises
FairSpec == Spec /\ WF_vars(Next)

(***************************************************************************)
(* clean_path and clean_url on their own: one call of clean_path(url,      *)
(* base_url), one of clean_url(url, base_url), and clean_path again on the *)
(* URL that clean_url returned.                                            *)
(***************************************************************************)
\* the most characters of a URL that are written percent-encoded
MaxQuoted == 2

Hex == << "0", "1", "2", "3", "4", "5", "6", "7", "8", "9", "A", "B", "C", "D", "E", "F" >>
\* the percent-encoding of the character c, which unquote (line 23) decodes
PercentEncoded(c) ==
  << "%", Hex[((CodeOf(c) + 31) \div 16) + 1], Hex[((CodeOf(c) + 31) % 16) + 1] >>

Concat[parts \in Seq(Seq(STRING))] ==
  IF parts = <<>> THEN <<>> ELSE Head(parts) \o Concat[Tail(parts)]

\* the string s with the characters at the positions in at percent-encoded
Quoted(s, at) ==
  Concat[[i \in 1..Len(s) |-> IF i \in at THEN PercentEncoded(s[i]) ELSE << s[i] >>]]

QuotedPositions(s) == { at \in SUBSET (1..Len(s)) : Cardinality(at) <= MaxQuoted }

\* base URLs as main passes them (no trailing slash, line 168): a site root
\* and a site with a path
CleanBases == { Http_e, Http_e \o <<"/", "d">> }

\* the url arguments: absolute and relative links, with a fragment, a query,
\* dot segments, white space, upper case and a percent-encoded character
CleanUrls ==
  { <<>>,
    <<"A">>,
    <<"a", " ", "b">>,
    <<"x", "#", "y">>,
    <<"x", "?", "q">>,
    <<".", ".", "/", "x">>,
    <<"%", "4", "1">>,
    <<"/", "d", "/", "x">>,
    Http_e \o <<"/", "a">>,
    Http_e \o <<"/", "d", "/", "x">>,
    Http_e \o <<"/", "a", "/", ".", ".", "/", "b">>,
    <<"h", "t", "t", "p", ":", "/", "/", "x", "/", "a">> }

\* the arguments of a call; same tells that url is base_url up to a trailing
\* slash and percent-encoding
CleanCall(u, b, same) ==
  [stage |-> "input", url |-> u, base_url |-> b, same |-> same,
   cleaned_path |-> <<>>, cleaned_url |-> <<>>, path_again |-> <<>>]

\* the base URL written plainly or with its last character percent-encoded,
\* and the same URL written with any of its characters percent-encoded, with
\* or without a trailing slash
SameUrlCalls ==
  UNION { { CleanCall(Quoted(b \o slash, at), Quoted(b, base_at), TRUE) :
              at \in QuotedPositions(b \o slash), base_at \in { {}, {Len(b)} } } :
          b \in CleanBases, slash \in { <<>>, <<"/">> } }

CleanInit ==
  /\ norm \in { CleanCall(u, b, FALSE) : u \in CleanUrls, b \in CleanBases }
              \cup SameUrlCalls
  /\ pc = "clean"
  /\ arg_url = <<>>
  /\ limit = 0
  /\ url = <<>>
  /\ base_url = <<>>
  /\ processed_urls = {}
  /\ urls_to_process = {}
  /\ current_url = <<>>
  /\ links_left = 0
  /\ link_url = <<>>
  /\ output_dir = "absent"
  /\ files = {}
  /\ archive = "absent"
  /\ printed = {}
  /\ caught = ""
  /\ fetched = {}
  /\ fetch_failed = {}
  /\ arun_calls = 0
  /\ enqueued = {}
  /\ in_flight = 0
  /\ rewritten = {}

run_vars == << pc, arg_url, limit, url, base_url, processed_urls, urls_to_process,
               current_url, links_left, link_url, output_dir, files, archive, printed,
               caught, fetched, fetch_failed, arun_calls, enqueued, in_flight,
               rewritten >>

\* line 15 (and line 70): clean_path(url, base_url)
CleanPathCall ==
  /\ norm.stage = "input"
  /\ norm' = [norm EXCEPT !.stage = "clean_path",
                          !.cleaned_path = clean_path(norm.url, norm.base_url)]
  /\ UNCHANGED run_vars

\* line 125: clean_url(url, base_url)
CleanUrlCall ==
  /\ norm.stage = "clean_path"
  /\ norm' = [norm EXCEPT !.stage = "clean_url",
                          !.cleaned_url = clean_url(norm.url, norm.base_url)]
  /\ UNCHANGED run_vars

\* line 70 on a URL that line 125 produced: clean_path(cleaned_url, base_url)
CleanPathAgain ==
  /\ norm.stage = "clean_url"
  /\ norm' = [norm EXCEPT !.stage = "again",
                          !.path_again = clean_path(norm.cleaned_url, norm.base_url)]
  /\ UNCHANGED run_vars

CleanNext ==
  \/ CleanPathCall
  \/ CleanUrlCall
  \/ CleanPathAgain

CleanSpec == CleanInit /\ [][CleanNext]_vars

(***************************************************************************)
(* The claims.                                                             *)
(***************************************************************************)
SeedRoot == Http_e
SeedWithPath == Http_e \o <<"/", "d">>
CrawlFailed == Msg("Crawl failed", <<>>)
Zipped == Msg("Results have been zipped", <<>>)
Max0(n) == IF n > 0 THEN n ELSE 0

\* C1: for every positive limit, processed_urls never holds more than limit
\* URLs, the URLs whose page failed included.
C1_VisitedWithinLimit == limit > 0 => Cardinality(processed_urls) <= limit

\* the limit is reached with URLs still pending, a failed page among the
\* processed ones
C1_Witness ==
  /\ pc = "crawler_exit"
  /\ limit = MaxLimit
  /\ Cardinality(processed_urls) = limit
  /\ urls_to_process # {}
  /\ fetch_failed \cap processed_urls # {}

\* C2: crawler.arun is called at most limit times (never for a limit below
\* 1), and a run that entered crawl_website ends in done with the archive
\* reported or in failed with the failure of the crawl reported.
C2_CrawlTerminates ==
  /\ [](arun_calls <= Max0(limit))
  /\ (pc = "makedirs") ~> \/ pc = "done" /\ Zipped \in printed
                          \/ pc = "failed" /\ CrawlFailed \in printed

\* a run on a cyclic site (a page links back to the seed) that used all its
\* fetches, left URLs pending and ended
C2_Witness ==
  /\ pc = "done"
  /\ Zipped \in printed
  /\ limit = MaxLimit
  /\ arun_calls = limit
  /\ urls_to_process # {}
  /\ link_url = base_url

\* C3: the step that ends the fetch of a failed page adds the URL to
\* processed_urls, returns to the head of the loop without a failure of the
\* crawl and leaves urls_to_process as it is; and the loop ends only with
\* urls_to_process empty or the limit reached.
C3_FailedPageDoesNotAbort ==
  /\ [][(pc = "fetching" /\ current_url \in fetch_failed')
          => /\ current_url \in processed_urls'
             /\ pc' = "loop"
             /\ caught' = ""
             /\ CrawlFailed \notin printed'
             /\ urls_to_process' = urls_to_process]_vars
  /\ [](pc = "crawler_exit"
          => urls_to_process = {} \/ Cardinality(processed_urls) >= limit)

\* a page failed with its error printed, and a URL that was pending then is
\* fetched after it
C3_Witness ==
  /\ pc = "fetching"
  /\ current_url \notin fetch_failed
  /\ \E u \in fetch_failed \cap processed_urls : Msg("Error processing", u) \in printed

\* C4: a link whose URL is not a str never ends the run in failed.
C4_MalformedLinkDropped == ~(pc = "failed" /\ caught = "clean_url")

\* C5: every URL of urls_to_process, and every URL fetched, starts with
\* base_url and has the host of base_url.
C5_SameSite ==
  \A u \in urls_to_process \cup fetched :
    /\ StartsWith(u, base_url)
    /\ urlsplit(u, <<>>).netloc = urlsplit(base_url, <<>>).netloc

\* with the base http://e/d the link http://x/a of another host was cleaned to
\* http://e/httpxa, which does not start with the base, and was not added
C5_Witness ==
  /\ base_url = SeedWithPath
  /\ pc \in {"links", "loop"}
  /\ link_url = Http_e \o <<"/", "h", "t", "t", "p", "x", "a">>
  /\ link_url \notin urls_to_process

\* C6: processed_urls and urls_to_process are disjoint; a link whose cleaned
\* URL is processed or pending already leaves both sets as they are; the
\* loop never pops a URL that is processed already.
C6_FrontierDisjoint ==
  /\ [](processed_urls \cap urls_to_process = {})
  /\ [][(pc = "links" /\ pc' # "failed"
           /\ link_url' \in processed_urls \cup urls_to_process)
          => /\ urls_to_process' = urls_to_process
             /\ processed_urls' = processed_urls]_vars
  /\ [][pc = "loop" => pc' # "loop"]_vars

\* a link that resolves to the seed was read after the seed was processed,
\* and the seed is not pending again
C6_Witness ==
  /\ pc \in {"links", "loop"}
  /\ link_url = base_url
  /\ base_url \in processed_urls
  /\ base_url \notin urls_to_process
  /\ urls_to_process # {}

\* C7: with a URL that lacks a scheme or a host the run never gets past the
\* validation: no directory, no fetch, no archive.
C7_InvalidSeedNoCrawl ==
  (LET parsed_url == urlsplit(RStrip[arg_url, "/"], <<>>)
   IN parsed_url.scheme = <<>> \/ parsed_url.netloc = <<>>)
  => /\ pc \in {"main", "invalid"}
     /\ output_dir = "absent"
     /\ archive = "absent"
     /\ fetched = {}
     /\ arun_calls = 0
     /\ files = {}

\* the run of a URL with a scheme and no host has ended at the validation
C7_Witness ==
  /\ pc = "invalid"
  /\ urlsplit(url, <<>>).scheme # <<>>
  /\ urlsplit(url, <<>>).netloc = <<>>
  /\ Msg("Invalid URL provided", <<>>) \in printed

\* C8: when os.makedirs or the start of the crawler raises, the run is in
\* failed with the failure printed, nothing was fetched, and no archive was
\* attempted or made.
C8_SetupErrorFails ==
  caught \in {"makedirs", "crawler_enter"}
  => /\ pc = "failed"
     /\ CrawlFailed \in printed
     /\ fetched = {}
     /\ arun_calls = 0
     /\ archive = "absent"
     /\ Zipped \notin printed

\* the start of the crawler raised after the directory was made
C8_Witness == pc = "failed" /\ caught = "crawler_enter" /\ output_dir = "exists"

\* C9: the directory is removed, and files of it are removed, only with the
\* archive created; when make_archive raises the directory stays and no
\* archive is reported.
C9_RemovalAfterArchive ==
  /\ [](output_dir = "removed" => archive = "created")
  /\ [](caught = "make_archive"
          => output_dir = "exists" /\ archive # "created" /\ Zipped \notin printed)
  /\ [][(output_dir' # output_dir /\ output_dir' = "removed") \/ ~(files \subseteq files')
          => archive = "created" /\ Zipped \in printed]_vars

\* make_archive raised with files in the directory, which are all still there
C9_Witness ==
  /\ pc = "failed"
  /\ caught = "make_archive"
  /\ Cardinality(files) = MaxLimit
  /\ output_dir = "exists"

\* C10: a failure of rmtree after the archive was made is not reported as a
\* failure of the crawl.
C10_RemovalFailureIsWarning ==
  caught = "rmtree" => pc # "failed" /\ CrawlFailed \notin printed

\* C11: no page opens for writing a file name that is in the output
\* directory already, and at the end of the loop the directory holds a file
\* for every page that was written successfully.
C11_FileWrittenOnce ==
  /\ rewritten = {}
  /\ pc = "crawler_exit"
       => Cardinality(files) >= Cardinality(processed_urls \ fetch_failed)

\* C12: for every URL whose page failed (success=false or an exception in
\* process_url) "Error processing <url>" has been printed by the time the
\* loop goes on.
C12_FetchErrorLogged ==
  \A u \in fetch_failed : Msg("Error processing", u) \in printed

\* C13: clean_path of the URL that clean_url returned is clean_path of the
\* URL that clean_url was given, for every URL and every base URL, a base
\* URL with a path included.
C13_CleanPathStable ==
  norm.stage = "again" => norm.path_again = norm.cleaned_path

\* C14: for every URL that is base_url up to a trailing slash and
\* percent-encoding, clean_path(url, base_url) is the empty string.
C14_RootPathEmpty ==
  norm.stage \in {"clean_path", "clean_url", "again"} /\ norm.same
    => norm.cleaned_path = <<>>

\* clean_path has returned for a base URL with a path, written here with a
\* trailing slash and a percent-encoded character, the base URL itself
\* written with another one
C14_Witness ==
  /\ norm.stage = "clean_path"
  /\ norm.same
  /\ norm.url = Http_e \o <<"/", "%", "6", "4", "/">>
  /\ norm.base_url = Http_e \o <<"/", "%", "6", "4">>
  /\ norm.cleaned_path = <<>>

\* C15: crawler.arun is called at most once on each URL, whatever the page
\* of the URL did: there are as many calls as URLs fetched, and once the call
\* on a URL is over the URL is in processed_urls, so that it is not fetched
\* again, a failed one included.
C15_FetchedAtMostOnce ==
  /\ arun_calls = Cardinality(fetched)
  /\ pc # "fetching" => fetched \subseteq processed_urls
  /\ pc = "fetching" => fetched \ {current_url} \subseteq processed_urls

\* a later page links to a URL whose page failed; the link is not enqueued
\* and the URL is not fetched again
C15_Witness ==
  /\ pc = "loop"
  /\ link_url \in fetch_failed \cap processed_urls
  /\ current_url # link_url
  /\ link_url \notin urls_to_process
  /\ arun_calls = 3

\* C16: when the loop is over and the archive is about to be made or has
\* been made, urls_to_process is empty or processed_urls holds at least
\* limit URLs; and if it holds fewer, every URL that was ever added to
\* urls_to_process has been fetched.
C16_LoopNotStoppedEarly ==
  pc \in {"crawler_exit", "make_archive", "rmtree", "done"}
    => /\ urls_to_process = {} \/ Cardinality(processed_urls) >= limit
       /\ Cardinality(processed_urls) < limit => enqueued \subseteq fetched

\* the archive is about to be made with fewer pages than the limit: the
\* seed and the two URLs its page linked to were all fetched
C16_Witness ==
  /\ pc = "make_archive"
  /\ limit = MaxLimit
  /\ Cardinality(processed_urls) = limit - 1
  /\ Cardinality(enqueued) = limit - 1
  /\ enqueued = fetched

\* C17: the step that ends the fetch of a page that failed (success=False or
\* an exception) starts no loop over links and adds nothing to
\* urls_to_process: the URL, popped before, is added to processed_urls and
\* that is all; the loop over links never runs for a failed page.
C17_FailedPageNoLinks ==
  /\ [][(pc = "fetching" /\ current_url \in fetch_failed')
          => /\ links_left' = 0
             /\ enqueued' = enqueued
             /\ urls_to_process' = urls_to_process
             /\ current_url \notin urls_to_process'
             /\ processed_urls' = processed_urls \cup {current_url}]_vars
  /\ [](pc = "links" => current_url \notin fetch_failed)

\* the page of a discovered URL has just failed, with other URLs pending
C17_Witness ==
  /\ pc = "loop"
  /\ current_url \in fetch_failed \cap processed_urls
  /\ current_url # base_url
  /\ current_url \notin urls_to_process
  /\ urls_to_process # {}
  /\ links_left = 0

\* C18: at most one call of crawler.arun is in flight, the loop is at the
\* await of line 113 exactly while one is, and a step that leaves a call in
\* flight leaves processed_urls as it is and takes from urls_to_process only
\* the URL whose fetch it starts.
C18_OneFetchInFlight ==
  /\ [](in_flight = (IF pc = "fetching" THEN 1 ELSE 0))
  /\ [][in_flight' >= 1
          => /\ processed_urls' = processed_urls
             /\ urls_to_process' = urls_to_process \ {current_url'}]_vars

\* a fetch is in flight while URLs are pending and others are processed
C18_Witness ==
  /\ in_flight = 1
  /\ pc = "fetching"
  /\ urls_to_process # {}
  /\ processed_urls # {}
  /\ current_url \notin processed_urls \cup urls_to_process

\* C19: the first URL fetched is the seed: whenever a URL has been fetched
\* the seed has, a loop that ends with a limit of at least 1 has fetched it,
\* a URL other than the seed is fetched only with the seed in processed_urls,
\* and once the seed has been fetched it is never in urls_to_process again,
\* whatever links resolve to it.
C19_SeedFetchedFirst ==
  /\ fetched # {} => url \in fetched
  /\ (limit >= 1 /\ pc \in {"crawler_exit", "make_archive", "rmtree", "done"})
       => url \in fetched
  /\ fetched \ {url} # {} => url \in processed_urls
  /\ url \in fetched => url \notin urls_to_process

\* the page of a discovered URL links back to the seed, a URL with a path;
\* the link is not enqueued
C19_Witness ==
  /\ pc = "links"
  /\ url = SeedWithPath
  /\ link_url = url
  /\ current_url \in fetched \ {url}
  /\ url \in processed_urls
  /\ url \notin urls_to_process

====
